---- MODULE Spec2Model ----
(***************************************************************************)
(* A model of akshare_get_csv.py: get_stock_data(symbol, adjust_type)      *)
(* maps the adjustment selector, fetches the daily history of one A-share   *)
(* symbol, normalises the table and writes it to A_data/<name>.csv.         *)
(*                                                                         *)
(* Text whose characters the code inspects (the selector, raw cell text)   *)
(* is a sequence of one-character strings; text the code only builds and   *)
(* passes on (file names, CSV fields) is a string.  The source-locale      *)
(* column labels are written in ASCII transliteration.                     *)
(***************************************************************************)
EXTENDS Integers, Sequences, FiniteSets, TLC

\* ------------------------------------------------------------------ bounds

\* Longest table the provider returns.
MaxRows == 2

\* Invocations of the program in a row (SpecRerun).
MaxRuns == 2

\* -------------------------------------------------------------------- text

UpperLetters ==
    <<"A","B","C","D","E","F","G","H","I","J","K","L","M",
      "N","O","P","Q","R","S","T","U","V","W","X","Y","Z">>

LowerLetters ==
    <<"a","b","c","d","e","f","g","h","i","j","k","l","m",
      "n","o","p","q","r","s","t","u","v","w","x","y","z">>

\* str.lower() on one character.
LowerChar(c) ==
    IF \E i \in 1..Len(UpperLetters) : UpperLetters[i] = c
    THEN LowerLetters[CHOOSE i \in 1..Len(UpperLetters) : UpperLetters[i] = c]
    ELSE c

\* str.lower(): adjust_type.lower()
Lower(s) == [i \in 1..Len(s) |-> LowerChar(s[i])]

Digits == <<"0","1","2","3","4","5","6","7","8","9">>

IsDigit(c) == \E i \in 1..Len(Digits) : Digits[i] = c

DigitVal(c) == (CHOOSE i \in 1..Len(Digits) : Digits[i] = c) - 1

DigitStr(n) == Digits[n + 1]

\* ----------------------------------------------------- adjustment mapper

\* The selector values the mapper tests for, lines 21 and 23.
NoAdjustWords ==
    { <<"n","o","n","e">>, <<"n","o">>, <<"f","a","l","s","e">>, <<>> }

HfqWord == <<"h","f","q">>

\* Faulty variant of AkAdjust: only "none" selects no adjustment.
MutAkAdjustNoneOnly(adjust_type) ==
    IF Lower(adjust_type) = <<"n","o","n","e">> THEN ""
    ELSE IF Lower(adjust_type) = HfqWord THEN "hfq"
    ELSE "qfq"

\* Lines 21-26: the adjust parameter handed to the provider.
AkAdjust(adjust_type) ==
    IF Lower(adjust_type) \in NoAdjustWords THEN ""
    ELSE IF Lower(adjust_type) = HfqWord THEN "hfq"
    ELSE "qfq"

\* Faulty variant of AdjSuffix: the empty adjustment is not rendered.
MutAdjSuffixRaw(ak_adjust) == ak_adjust

\* Line 83.
AdjSuffix(ak_adjust) == IF ak_adjust = "" THEN "no_adj" ELSE ak_adjust

\* Line 84.
FileName(sym, ak_adjust) == sym \o "_" \o AdjSuffix(ak_adjust) \o "_A_data.csv"

\* Lines 74-76 and 85: the path below the program's own directory.
DataDir == "A_data"

FullFilePath(sym, ak_adjust) == DataDir \o "/" \o FileName(sym, ak_adjust)

\* ------------------------------------------------------------ table cells

\* A cell is a number, a text, or missing (NaN / None).
NaN == [k |-> "nan", n |-> 0, s |-> <<>>, t |-> ""]

Num(n) == [k |-> "num", n |-> n, s |-> <<>>, t |-> ""]

Str(s) == [k |-> "str", n |-> 0, s |-> s, t |-> ""]

\* A date rendered as text by strftime.
Txt(t) == [k |-> "txt", n |-> 0, s |-> <<>>, t |-> t]

IsNumeral(s) == Len(s) > 0 /\ \A i \in 1..Len(s) : IsDigit(s[i])

RECURSIVE ParseInt(_)
ParseInt(s) ==
    IF s = <<>> THEN 0
    ELSE 10 * ParseInt(SubSeq(s, 1, Len(s) - 1)) + DigitVal(s[Len(s)])

\* Line 65: pd.to_numeric(..., errors='coerce') on one cell.
ToNumeric(v) ==
    IF v.k = "num" THEN v
    ELSE IF v.k = "str" /\ IsNumeral(v.s) THEN Num(ParseInt(v.s))
    ELSE NaN

\* Line 59: a day of January 1990 as '%Y-%m-%d'.
IsoDate(d) == "1990-01-" \o DigitStr(d \div 10) \o DigitStr(d % 10)

\* Line 59 on one cell: pd.to_datetime(...).dt.strftime('%Y-%m-%d');
\* a missing date stays missing.
ToDateText(v) == IF v.k = "num" THEN Txt(IsoDate(v.n)) ELSE NaN

\* Line 59: to_datetime raises on a value it cannot parse.
DateParses(v) == v.k \in {"num", "nan"}

\* ---------------------------------------------------------------- tables

\* The provider's column labels, in the provider's order.
SourceCols ==
    <<"riqi", "kaipan", "shoupan", "zuigao", "zuidi", "chengjiaoliang",
      "chengjiaoe", "zhenfu", "zhangdiefu", "zhangdiee", "huanshoulv">>

\* Lines 44-56: the labels the rename table gives them, in the same order.
NormalCols ==
    <<"date", "open", "close", "high", "low", "volume",
      "amount", "amplitude", "pct_change", "price_change", "turnover">>

\* Lines 44-56: one label through the rename table; other labels are kept.
RenameCol(c) ==
    IF \E i \in 1..Len(SourceCols) : SourceCols[i] = c
    THEN NormalCols[CHOOSE i \in 1..Len(SourceCols) : SourceCols[i] = c]
    ELSE c

\* Lines 62-63.
numeric_cols ==
    <<"open", "close", "high", "low", "volume", "amount",
      "amplitude", "pct_change", "price_change", "turnover">>

\* Line 69.
essential_cols == {"open", "high", "low", "close", "volume"}

Range(f) == {f[i] : i \in DOMAIN f}

\* A table (DataFrame): its column labels in order and its rows, each a
\* function from label to cell.
EmptyTable == [cols |-> <<>>, rows |-> <<>>]

\* Faulty variant of IsEmpty: the empty check never fires.
MutIsEmptyNever(df) == FALSE

\* Line 38: df.empty
IsEmpty(df) == Len(df.rows) = 0 \/ Len(df.cols) = 0

\* Lines 44-56: df.rename(columns=..., inplace=True)
Rename(df) ==
    [cols |-> [j \in 1..Len(df.cols) |-> RenameCol(df.cols[j])],
     rows |-> [i \in 1..Len(df.rows) |->
                [c \in {RenameCol(k) : k \in Range(df.cols)} |->
                    df.rows[i][CHOOSE k \in Range(df.cols) : RenameCol(k) = c]]]]

\* Line 59: what the date conversion raises on the renamed table, or "".
DateError(df) ==
    IF "date" \notin Range(df.cols) THEN "KeyError"
    ELSE IF \E i \in 1..Len(df.rows) : ~DateParses(df.rows[i]["date"])
    THEN "ValueError"
    ELSE ""

\* Line 59.
ConvertDate(df) ==
    [df EXCEPT !.rows =
        [i \in 1..Len(df.rows) |->
            [df.rows[i] EXCEPT !["date"] = ToDateText(df.rows[i]["date"])]]]

\* Lines 64-65: df[col] raises KeyError for a column the table lacks.
NumericError(df) ==
    IF \E j \in 1..Len(numeric_cols) : numeric_cols[j] \notin Range(df.cols)
    THEN "KeyError"
    ELSE ""

\* Lines 64-65.
CoerceNumeric(df) ==
    [df EXCEPT !.rows =
        [i \in 1..Len(df.rows) |->
            [c \in DOMAIN df.rows[i] |->
                IF c \in Range(numeric_cols)
                THEN ToNumeric(df.rows[i][c])
                ELSE df.rows[i][c]]]]

\* Faulty variant of KeepRow: how='any', a row is dropped as soon as one
\* column of the subset is missing.
MutKeepRowAny(r, subset) == \A c \in subset : r[c].k # "nan"

\* Line 70: a row is kept unless every column of the subset is missing.
KeepRow(r, subset) == \E c \in subset : r[c].k # "nan"

\* Faulty variant of DropNa: the kept rows come out newest first.
MutDropNaReversed(df) ==
    LET kept == SelectSeq(df.rows, LAMBDA r : KeepRow(r, essential_cols))
    IN  [df EXCEPT !.rows = [i \in 1..Len(kept) |-> kept[Len(kept) + 1 - i]]]

\* Line 70: df.dropna(subset=essential_cols, how='all')
DropNa(df) ==
    [df EXCEPT !.rows = SelectSeq(df.rows, LAMBDA r : KeepRow(r, essential_cols))]

\* Lines 44-70: the error of the transform step, or "".
TransformError(df) ==
    IF DateError(Rename(df)) # "" THEN DateError(Rename(df))
    ELSE NumericError(Rename(df))

\* Lines 44-70: the normalised table.
Normalized(df) == DropNa(CoerceNumeric(ConvertDate(Rename(df))))

\* ------------------------------------------------------------------- CSV

RECURSIVE NumText(_)
NumText(n) == IF n < 10 THEN DigitStr(n) ELSE NumText(n \div 10) \o DigitStr(n % 10)

RECURSIVE Join(_)
Join(s) == IF s = <<>> THEN "" ELSE s[1] \o Join(Tail(s))

\* Line 88: one cell as a CSV field; a missing value is the empty field.
CsvField(v) ==
    CASE v.k = "nan" -> ""
      [] v.k = "num" -> NumText(v.n)
      [] v.k = "txt" -> v.t
      [] v.k = "str" -> Join(v.s)

\* Line 88: df.to_csv(path, index=False): the header and one line per row,
\* the fields in column order.  n is the number of lines that reached the
\* file and whole says whether the write ran to its end.
ToCsv(df, n, whole) ==
    [header |-> df.cols,
     lines  |-> [i \in 1..n |->
                    [j \in 1..Len(df.cols) |-> CsvField(df.rows[i][df.cols[j]])]],
     whole  |-> whole]

\* ---------------------------------------------------------------- inputs

Symbols == {"600519", "000001"}

\* Selector values get_stock_data can be called with: the three the command
\* line admits (line 105), the other spellings the mapper tests for, and
\* values it does not know.
CliChoices == { <<"q","f","q">>, <<"h","f","q">>, <<"n","o","n","e">> }

Selectors ==
    CliChoices \cup
    { <<"n","o">>, <<"f","a","l","s","e">>, <<>>,
      <<"N","O","N","E">>, <<"H","f","q">>, <<"N","o">>,
      <<"n","o","n">>, <<"x","y","z">> }

\* The essential columns under the provider's labels.
SourceEssential == {"kaipan", "zuigao", "zuidi", "shoupan", "chengjiaoliang"}

\* A provider row: the date cell, the cells of the essential columns and
\* one cell for each of the other columns.
SourceRow(date, ess, other) ==
    [c \in Range(SourceCols) |->
        IF c = "riqi" THEN date
        ELSE IF c \in SourceEssential THEN ess[c]
        ELSE other]

Dash == Str(<<"-">>)

\* The rows of day d the provider is taken to return: complete; essentials
\* missing while the rest is present; essentials unparseable text; exactly
\* one essential (open, volume) present, as a numeral in text; a date that
\* does not parse.
RowsOfDay(d) ==
    { SourceRow(Num(d), [c \in SourceEssential |-> Num(1)], Num(1)),
      SourceRow(Num(d), [c \in SourceEssential |-> NaN], Num(1)),
      SourceRow(Num(d), [c \in SourceEssential |-> Dash], NaN),
      SourceRow(Dash, [c \in SourceEssential |-> Num(1)], Num(1)) }
    \cup
    { SourceRow(Num(d), [c \in SourceEssential |->
                            IF c = e THEN Str(<<"7">>) ELSE NaN], Dash)
        : e \in {"kaipan", "chengjiaoliang"} }

\* The tables the provider returns: at most MaxRows rows, one per day, in
\* ascending date order (the provider's order); none at all is the empty
\* DataFrame.
RECURSIVE RowSeqs(_)
RowSeqs(n) ==
    IF n = 0 THEN { <<>> }
    ELSE { Append(rs, r) : rs \in RowSeqs(n - 1), r \in RowsOfDay(n) }

Tables ==
    { EmptyTable } \cup
    { [cols |-> SourceCols, rows |-> rs] :
        rs \in UNION { RowSeqs(n) : n \in 1..MaxRows } }

\* Exceptions the provider call raises (network failure, unknown symbol).
ProviderErrors == {"ConnectionError", "KeyError"}

\* What the provider call yields, line 30: a table or an exception.
Replies ==
    { [kind |-> "table", tbl |-> t, err |-> ""] : t \in Tables } \cup
    { [kind |-> "raise", tbl |-> EmptyTable, err |-> e] : e \in ProviderErrors }

NoReply == [kind |-> "none", tbl |-> EmptyTable, err |-> ""]

\* Where the write step can fail: os.makedirs (line 79), opening the file
\* or writing to it (line 88).
WriteFaults == {"none", "makedirs", "open", "write"}

\* Faulty variant of Caught: "except ValueError".
MutCaughtValueErrorOnly(err) == err = "ValueError"

\* Line 95: the classes "except Exception" catches.
Caught(err) == err \in {"ConnectionError", "KeyError", "ValueError", "OSError"}

\* ----------------------------------------------------------------- state

VARIABLES
    pc,           \* where the run is: Idle, Fetching, Normalizing, Writing,
                  \* Done, Failed, Crashed
    run,          \* invocations started so far
    symbol,       \* parameter symbol
    adjust_type,  \* parameter adjust_type
    ak_adjust,    \* local ak_adjust
    reply,        \* what the provider call yielded
    df,           \* local df
    exc,          \* the exception raised in the try block and where, if any
    out,          \* standard output, one entry per message
    dirExists,    \* whether the directory A_data exists
    files,        \* the files below the program's directory: path -> content
    dir0,         \* dirExists when the run started
    files0        \* files when the run started

vars ==
    <<pc, run, symbol, adjust_type, ak_adjust, reply, df, exc, out,
      dirExists, files, dir0, files0>>

NoExc == [type |-> "", at |-> ""]

NoFiles == [p \in {} |-> 0]

\* A file left by an earlier run of the program.
OldTable ==
    Normalized([cols |-> SourceCols,
                rows |-> << SourceRow(Num(9), [c \in SourceEssential |-> Num(7)],
                                      Num(7)) >>])

OldFile == ToCsv(OldTable, 1, TRUE)

\* The file system the program finds: no A_data, an empty A_data, or A_data
\* with the output of an earlier run.
StartFs ==
    { [dir |-> FALSE, files |-> NoFiles],
      [dir |-> TRUE,  files |-> NoFiles],
      [dir |-> TRUE,  files |-> [p \in {FullFilePath("600519", "qfq")} |-> OldFile]] }

Init ==
    /\ pc = "Idle"
    /\ run = 0
    /\ symbol = ""
    /\ adjust_type = <<>>
    /\ ak_adjust = ""
    /\ reply = NoReply
    /\ df = EmptyTable
    /\ exc = NoExc
    /\ out = <<>>
    /\ \E fs \in StartFs : dirExists = fs.dir /\ files = fs.files
    /\ dir0 = dirExists
    /\ files0 = files

\* Faulty variant of Raise: the handler goes back to the provider call.
MutRaiseRetry(err, at, said) ==
    /\ exc' = [type |-> err, at |-> at]
    /\ pc' = "Fetching"
    /\ out' = out \o said \o <<"exception", "traceback">>

\* Lines 95-98: an exception raised in the try block, after the step had
\* printed said.  One that the except clause catches is printed with its
\* trace and the function returns; any other leaves the function.
Raise(err, at, said) ==
    /\ exc' = [type |-> err, at |-> at]
    /\ IF Caught(err)
       THEN /\ pc' = "Failed"
            /\ out' = out \o said \o <<"exception", "traceback">>
       ELSE /\ pc' = "Crashed"
            /\ out' = out \o said

\* Lines 12-26: the call is entered, the start message printed and the
\* selector mapped.
Enter(sym, sel) ==
    /\ run' = run + 1
    /\ symbol' = sym
    /\ adjust_type' = sel
    /\ ak_adjust' = AkAdjust(sel)
    /\ reply' = NoReply
    /\ df' = EmptyTable
    /\ exc' = NoExc
    /\ out' = <<"start">>
    /\ pc' = "Fetching"
    /\ dir0' = dirExists
    /\ files0' = files
    /\ UNCHANGED <<dirExists, files>>

\* get_stock_data(sym, sel) is called.
Start(sym, sel) ==
    /\ pc = "Idle"
    /\ Enter(sym, sel)

\* Lines 101-109: the program is run again, as a new process, with a
\* selector the command line admits.
Rerun(sym, sel) ==
    /\ pc \in {"Done", "Failed"}
    /\ run < MaxRuns
    /\ sel \in CliChoices
    /\ Enter(sym, sel)

\* Lines 28-40: the provider call and the empty check.
Fetch(r) ==
    /\ pc = "Fetching"
    /\ reply' = r
    /\ IF r.kind = "raise"
       THEN Raise(r.err, "fetch", <<>>) /\ UNCHANGED df
       ELSE IF IsEmpty(r.tbl)
       THEN /\ df' = r.tbl
            /\ out' = Append(out, "empty_result")
            /\ pc' = "Failed"
            /\ UNCHANGED exc
       ELSE /\ df' = r.tbl
            /\ pc' = "Normalizing"
            /\ UNCHANGED <<exc, out>>
    /\ UNCHANGED <<run, symbol, adjust_type, ak_adjust, dirExists, files,
                   dir0, files0>>

\* Faulty variant of Normalize: the directory is made before the transform.
MutNormalizeMakesDir ==
    /\ pc = "Normalizing"
    /\ dirExists' = TRUE
    /\ IF TransformError(df) # ""
       THEN Raise(TransformError(df), "normalize", <<>>) /\ UNCHANGED df
       ELSE /\ df' = Normalized(df)
            /\ pc' = "Writing"
            /\ UNCHANGED <<exc, out>>
    /\ UNCHANGED <<run, symbol, adjust_type, ak_adjust, reply, files, dir0, files0>>

\* Lines 42-70: rename, date conversion, numeric coercion, row filter.
Normalize ==
    /\ pc = "Normalizing"
    /\ IF TransformError(df) # ""
       THEN Raise(TransformError(df), "normalize", <<>>) /\ UNCHANGED df
       ELSE /\ df' = Normalized(df)
            /\ pc' = "Writing"
            /\ UNCHANGED <<exc, out>>
    /\ UNCHANGED <<run, symbol, adjust_type, ak_adjust, reply, dirExists,
                   files, dir0, files0>>

Max(a, b) == IF a > b THEN a ELSE b

\* Faulty variant of WriteCsv: mode='a', the lines are added to the file.
MutWriteCsvAppend(fs, path, table) ==
    [p \in DOMAIN fs \cup {path} |->
        IF p # path THEN fs[p]
        ELSE IF p \in DOMAIN fs
        THEN [fs[p] EXCEPT !.lines = fs[p].lines \o
                                     ToCsv(table, Len(table.rows), TRUE).lines]
        ELSE ToCsv(table, Len(table.rows), TRUE)]

\* Line 88: the file after df.to_csv(path): the whole table replaces what
\* the path held.
WriteCsv(fs, path, table) ==
    [p \in DOMAIN fs \cup {path} |->
        IF p = path THEN ToCsv(table, Len(table.rows), TRUE) ELSE fs[p]]

\* Line 88: the file after a write that failed part way: opened (and so
\* truncated), n lines written.
WritePart(fs, path, table, n) ==
    [p \in DOMAIN fs \cup {path} |->
        IF p = path THEN ToCsv(table, n, FALSE) ELSE fs[p]]

\* Faulty variant of MakedirsNeeded: no test for the directory.
MutMakedirsAlways(exists) == TRUE

\* Line 78: whether os.makedirs is called.
MakedirsNeeded(exists) == ~exists

\* Lines 72-93: the directory is made if absent, the file name built, the
\* table written and the result printed.  os.makedirs raises when the
\* directory exists already or cannot be made; to_csv raises when the
\* directory is missing, when the file cannot be opened, or part way.
Write(fault) ==
    /\ pc = "Writing"
    /\ LET path == FullFilePath(symbol, ak_adjust)
           need == MakedirsNeeded(dirExists)
           said == IF need THEN <<"dir_created">> ELSE <<>>
       IN
       IF need /\ (dirExists \/ fault = "makedirs")
       THEN /\ Raise("OSError", "makedirs", <<>>)
            /\ UNCHANGED <<dirExists, files>>
       ELSE IF ~(dirExists \/ need) \/ fault = "open"
       THEN /\ dirExists' = (dirExists \/ need)
            /\ Raise("OSError", "to_csv", said)
            /\ UNCHANGED files
       ELSE IF fault = "write"
       THEN /\ dirExists' = TRUE
            /\ \E n \in 0..Max(0, Len(df.rows) - 1) :
                   files' = WritePart(files, path, df, n)
            /\ Raise("OSError", "to_csv", said)
       ELSE /\ dirExists' = TRUE
            /\ files' = WriteCsv(files, path, df)
            /\ pc' = "Done"
            /\ out' = out \o said \o <<"saved", "row_count", "preview">>
            /\ UNCHANGED exc
    /\ UNCHANGED <<run, symbol, adjust_type, ak_adjust, reply, df, dir0, files0>>

Next ==
    \/ \E sym \in Symbols, sel \in Selectors : Start(sym, sel)
    \/ \E r \in Replies : Fetch(r)
    \/ Normalize
    \/ \E fault \in WriteFaults : Write(fault)

Spec == Init /\ [][Next]_vars

\* ------------------------------------------------- repeated invocations

\* Provider answers of successive runs: no data, a failure, and the history
\* as it grows from one day to two, with and without a row that the filter
\* drops, and with a row whose date does not parse.
FullRow(d) == SourceRow(Num(d), [c \in SourceEssential |-> Num(1)], Num(1))

BlankRow(d) == SourceRow(Num(d), [c \in SourceEssential |-> NaN], Num(1))

UndatedRow == SourceRow(Dash, [c \in SourceEssential |-> Num(1)], Num(1))

RerunReplies ==
    { [kind |-> "table", tbl |-> EmptyTable, err |-> ""],
      [kind |-> "raise", tbl |-> EmptyTable, err |-> "ConnectionError"] } \cup
    { [kind |-> "table", tbl |-> [cols |-> SourceCols, rows |-> rs], err |-> ""] :
        rs \in { <<FullRow(1)>>,
                 <<FullRow(1), BlankRow(2)>>,
                 <<FullRow(1), FullRow(2)>>,
                 <<FullRow(1), UndatedRow>> } }

NextRerun ==
    \/ \E sym \in Symbols, sel \in CliChoices : Start(sym, sel)
    \/ \E sym \in Symbols, sel \in CliChoices : Rerun(sym, sel)
    \/ \E r \in RerunReplies : Fetch(r)
    \/ Normalize
    \/ \E fault \in WriteFaults : Write(fault)

\* The program run up to MaxRuns times in a row from the command line.
SpecRerun == Init /\ [][NextRerun]_vars

\* One run from the command line.
NextOnce ==
    \/ \E sym \in Symbols, sel \in CliChoices : Start(sym, sel)
    \/ \E r \in RerunReplies : Fetch(r)
    \/ Normalize
    \/ \E fault \in WriteFaults : Write(fault)

\* Normalize and Write are finite synchronous computations: once the
\* provider call has returned, the run goes on to its end.  The provider
\* call itself is not time-bounded and gets no fairness.
FairSpec ==
    /\ Init
    /\ [][NextOnce]_vars
    /\ WF_vars(Normalize)
    /\ WF_vars(\E fault \in WriteFaults : Write(fault))

\* ----------------------------------------------------------- properties

\* The path this run writes to, and the provider rows of this run.
OutPath == FullFilePath(symbol, ak_adjust)

SourceRows == reply.tbl.rows

FsUntouched == dirExists = dir0 /\ files = files0

\* A provider cell that holds a value once unparseable text counts as missing.
HasValue(v) ==
    \/ v.k = "num"
    \/ v.k = "str" /\ v.s # <<>> /\ \A i \in 1..Len(v.s) : IsDigit(v.s[i])

RowHasEssential(r) == \E c \in SourceEssential : HasValue(r[c])

\* C1: when the provider call returned an empty table the run has printed
\* the empty-result message and nothing after it, has ended without ever
\* reaching the write step, and the directory and every file are as they
\* were when the run started.
C1_EmptyResultWritesNothing ==
    (reply.kind = "table" /\ reply.tbl.rows = <<>>) =>
        /\ pc = "Failed"
        /\ out = <<"start", "empty_result">>
        /\ exc = NoExc
        /\ FsUntouched

C1_Witness ==
    /\ reply.kind = "table" /\ reply.tbl.rows = <<>>
    /\ pc = "Failed"
    /\ files # NoFiles
    /\ adjust_type = <<"n","o","n","e">>

\* C2: when the provider call raised, the exception was caught inside
\* get_stock_data (the run ended Failed, it did not leave the function),
\* its message and trace were printed, and the directory and every file are
\* as they were when the run started.
C2_ProviderExceptionCaught ==
    reply.kind = "raise" =>
        /\ pc = "Failed"
        /\ exc = [type |-> reply.err, at |-> "fetch"]
        /\ out = <<"start", "exception", "traceback">>
        /\ FsUntouched

C2_Witness ==
    /\ reply.kind = "raise" /\ reply.err = "KeyError"
    /\ pc = "Failed"
    /\ files # NoFiles

\* C3 as stated: every failed run, wherever it failed, leaves the directory
\* and the files as they were when it started (no output file, no partial
\* file, no directory made before the failure).
C3_FailedRunLeavesNothing == pc = "Failed" => FsUntouched

\* C3 as amended: a run that failed before to_csv started (empty result,
\* exception in the provider call, in the transform or in os.makedirs)
\* leaves the directory and the files as they were; a run that failed in
\* to_csv has the directory (made by this run if it was absent) and may
\* have changed the file at its own path only.
C3_FailureBeforeToCsvLeavesNothing ==
    pc = "Failed" =>
        /\ exc.at # "to_csv" => FsUntouched
        /\ exc.at = "to_csv" =>
            /\ dirExists
            /\ DOMAIN files \subseteq DOMAIN files0 \cup {OutPath}
            /\ \A p \in DOMAIN files0 :
                   p # OutPath => p \in DOMAIN files /\ files[p] = files0[p]

C3_Witness ==
    /\ pc = "Failed"
    /\ exc.at = "normalize"
    /\ ~dirExists

C4_Known == { <<"n","o","n","e">>, <<"n","o">>, <<"f","a","l","s","e">>, <<>>,
              <<"h","f","q">> }

C4_Tag(sel) ==
    IF sel = <<"n","o","n","e">> THEN "no_adj"
    ELSE IF sel = <<"h","f","q">> THEN "hfq"
    ELSE "qfq"

C4_Covered(sel) ==
    \/ sel \in { <<"n","o","n","e">>, <<"h","f","q">>, <<"q","f","q">> }
    \/ Lower(sel) \notin C4_Known

C5_ExactSelectorLookup ==
    pc # "Idle" =>
        /\ ak_adjust = "" <=>
               adjust_type \in { <<"n","o","n","e">>, <<"n","o">>,
                                 <<"f","a","l","s","e">>, <<>> }
        /\ ak_adjust = "hfq" <=> adjust_type = <<"h","f","q">>
        /\ ak_adjust \in {"", "hfq", "qfq"}

\* C5 as amended: the same lookup on the selector with its letters put in
\* lower case: empty exactly when the lower-cased selector is one of "none",
\* "no", "false", "", "hfq" exactly when it is "hfq", "qfq" otherwise.
C5_CaseInsensitiveLookup ==
    pc # "Idle" =>
        /\ ak_adjust = "" <=>
               Lower(adjust_type) \in { <<"n","o","n","e">>, <<"n","o">>,
                                        <<"f","a","l","s","e">>, <<>> }
        /\ ak_adjust = "hfq" <=> Lower(adjust_type) = <<"h","f","q">>
        /\ ak_adjust \in {"", "hfq", "qfq"}

C5_Witness ==
    /\ pc = "Fetching"
    /\ adjust_type = <<"N","O","N","E">>
    /\ ak_adjust = ""

\* C6: in the written file a provider row is absent if and only if open,
\* high, low, close and volume are all missing in it once unparseable text
\* counts as missing; the other six fields play no part.
C6_RowDroppedIffAllEssentialMissing ==
    pc = "Done" =>
        \A i \in 1..Len(SourceRows) :
            (\E j \in 1..Len(files[OutPath].lines) :
                 files[OutPath].lines[j][1] = IsoDate(SourceRows[i]["riqi"].n))
            <=> RowHasEssential(SourceRows[i])

C6_Witness ==
    /\ pc = "Done"
    /\ Len(SourceRows) = 2
    /\ ~RowHasEssential(SourceRows[1]) /\ HasValue(SourceRows[1]["huanshoulv"])
    /\ RowHasEssential(SourceRows[2]) /\ ~HasValue(SourceRows[2]["huanshoulv"])
    /\ Len(files[OutPath].lines) = 1

C7_Tag(sel) ==
    IF sel = <<"n","o","n","e">> THEN "no_adj"
    ELSE IF sel = <<"h","f","q">> THEN "hfq"
    ELSE "qfq"

C7_Path == "A_data/" \o symbol \o "_" \o C7_Tag(adjust_type) \o "_A_data.csv"

\* C7: a successful run leaves exactly the files that were there plus the
\* one at the path fixed by its symbol and adjustment; that file holds the
\* table of this run and nothing else (what it held before is gone), every
\* other file is as it was; so a run on unchanged data leaves the file
\* system unchanged.
C7_RerunOverwritesSamePath ==
    pc = "Done" =>
        /\ DOMAIN files = DOMAIN files0 \cup {C7_Path}
        /\ files[C7_Path].whole
        /\ files[C7_Path].header = NormalCols
        /\ Len(files[C7_Path].lines) = Len(df.rows)
        /\ \A i \in 1..Len(df.rows) : \A j \in 1..Len(NormalCols) :
               files[C7_Path].lines[i][j] = CsvField(df.rows[i][NormalCols[j]])
        /\ \A p \in DOMAIN files0 : p # C7_Path => files[p] = files0[p]
        /\ (C7_Path \in DOMAIN files0 /\ files0[C7_Path] = ToCsv(df, Len(df.rows), TRUE))
               => files = files0

C7_Witness ==
    /\ pc = "Done"
    /\ run = 2
    /\ C7_Path \in DOMAIN files0
    /\ files0[C7_Path].whole
    /\ Len(files0[C7_Path].lines) = 2
    /\ Len(files[C7_Path].lines) = 1

C8_Edges ==
    { <<"Idle", "Fetching">>, <<"Fetching", "Normalizing">>,
      <<"Normalizing", "Writing">>, <<"Writing", "Done">>,
      <<"Fetching", "Failed">>, <<"Normalizing", "Failed">>,
      <<"Writing", "Failed">> }

C8_Step ==
    /\ pc' # pc => <<pc, pc'>> \in C8_Edges
    /\ (pc = "Fetching" /\ pc' = "Failed") =>
           \/ exc'.type # ""
           \/ reply'.kind = "table" /\ reply'.tbl.rows = <<>>
    /\ (pc \in {"Normalizing", "Writing"} /\ pc' = "Failed") => exc'.type # ""
    /\ pc \in {"Done", "Failed"} => pc' = pc
    /\ files' # files => (pc = "Writing" /\ pc' \in {"Done", "Failed"})

\* C8: a run moves only along Fetching -> Normalizing -> Writing -> Done,
\* or to Failed from Fetching on an empty result, or to Failed from
\* Fetching, Normalizing or Writing on a caught exception; nothing leaves
\* Done or Failed; the files change only in a step taken from Writing; and
\* once the provider call has returned the run reaches Done or Failed.
C8_LinearStateMachine ==
    /\ [][C8_Step]_vars
    /\ (reply.kind # "none") ~> (pc \in {"Done", "Failed"})

C8_Witness ==
    /\ pc = "Failed"
    /\ exc.at = "to_csv"
    /\ files # files0

C9_Day(r) ==
    IF "riqi" \in DOMAIN r THEN r["riqi"].n
    ELSE CHOOSE d \in 1..31 : IsoDate(d) = r["date"].t

C9_Dated(r) ==
    IF "riqi" \in DOMAIN r THEN r["riqi"].k = "num" ELSE r["date"].k = "txt"

C9_KeptIndexes ==
    SelectSeq([i \in 1..Len(SourceRows) |-> i],
              LAMBDA i : RowHasEssential(SourceRows[i]))

\* C9: the rows of the table are in ascending date order in every state of
\* a run, and the lines of the written file are the provider rows that were
\* kept, in the provider's order.
C9_RowsStayInDateOrder ==
    /\ \A i, j \in 1..Len(df.rows) :
           (i < j /\ C9_Dated(df.rows[i]) /\ C9_Dated(df.rows[j]))
               => C9_Day(df.rows[i]) < C9_Day(df.rows[j])
    /\ pc = "Done" =>
           /\ Len(files[OutPath].lines) = Len(C9_KeptIndexes)
           /\ \A j \in 1..Len(C9_KeptIndexes) :
                  files[OutPath].lines[j][1] =
                      IsoDate(SourceRows[C9_KeptIndexes[j]]["riqi"].n)

C9_Witness ==
    /\ pc = "Done"
    /\ Len(files[OutPath].lines) = 2
    /\ files[OutPath].lines[1][1] = "1990-01-01"
    /\ files[OutPath].lines[2][1] = "1990-01-02"

C10_ReachedWrite == pc = "Done" \/ exc.at \in {"makedirs", "to_csv"}

\* C10 as stated: in every run the directory is made if and only if the
\* write step is reached while the directory is absent; a directory that
\* exists is left as it is; no file is written while the directory does not
\* exist.
C10_DirectoryMadeIffWriteReached ==
    /\ pc \in {"Done", "Failed"} =>
           ((dirExists /\ ~dir0) <=> (C10_ReachedWrite /\ ~dir0))
    /\ dir0 => dirExists
    /\ files # files0 => dirExists

\* C10 as amended: the directory is made if and only if the write step is
\* reached while the directory is absent and os.makedirs does not raise;
\* os.makedirs is called only when the directory is absent; before the
\* write step the directory is as it was; a directory that exists is left
\* as it is; no file is written while the directory does not exist.
C10_DirectoryMadeUnlessMakedirsFails ==
    /\ pc \in {"Done", "Failed"} =>
           ((dirExists /\ ~dir0) <=>
                (~dir0 /\ (pc = "Done" \/ exc.at = "to_csv")))
    /\ exc.at = "makedirs" => (~dir0 /\ ~dirExists /\ files = files0)
    /\ pc \in {"Idle", "Fetching", "Normalizing", "Writing"} => dirExists = dir0
    /\ dir0 => dirExists
    /\ files # files0 => dirExists

C10_Witness ==
    /\ pc = "Done"
    /\ ~dir0
    /\ dirExists
    /\ OutPath \in DOMAIN files

====
